---- MODULE Spec2Model ----
(***************************************************************************)
(* Model of the Sol audio engine (CelestialAudioEngine, lib/audioEngine)   *)
(* together with the useAudioEngine hook that drives it and feeds the      *)
(* Animation Driver's isPlaying prop.                                      *)
(*                                                                         *)
(* JavaScript is single threaded: an async method runs synchronously up to *)
(* an await of a promise that is settled by the environment (dynamic       *)
(* import, Tone.start(), AudioContext.resume()).  Only at those awaits can *)
(* other handlers, timers and loop callbacks run.  Each async call is a    *)
(* task with a stack of frames; an action runs a task from one such await  *)
(* to the next one, or to the completion of the call.                      *)
(***************************************************************************)
EXTENDS Integers, Sequences, FiniteSets, TLC

\* ---- bounds of the model ----
NumPlanets == 2     \* planets of PLANETS that are modelled (the first ones)
MaxSched == 3       \* schedules (loops and timer chains) alive at a time
MaxTime == 4        \* ticks of the wall clock that the animation is followed for
MaxCalls == 4       \* calls of an engine setter that one burst of changes is followed for
MaxDepth == 10      \* frames on the stack of one async call

\* ---- program constants ----
maxRetries == 3
MinTempo == 60
MaxTempo == 180
DefaultTempo == 120
baseInterval == 2000
DefaultTimeMultiplier == 1000
MinTimeMultiplier == 1
MaxTimeMultiplier == 10000

Planets == 1..NumPlanets
TempoInputs == {30}
MultiplierInputs == {1000}

\* planetMultipliers of calculatePlanetInterval, times ten (mercury .. neptune)
planetMultipliers == <<5, 8, 10, 15, 20, 25, 30, 35>>

Max(a, b) == IF a > b THEN a ELSE b
Min(a, b) == IF a < b THEN a ELSE b

\* F applied to the value of x, which is computed once however often F uses it
Let(x, F(_)) == CHOOSE r \in {F(y) : y \in {x}} : TRUE

\* Math.max(lo, Math.min(hi, x))
Clamp(lo, hi, x) == Max(lo, Min(hi, x))

\* interval in ms of planet p's schedule at tempo bpm
calculatePlanetInterval(p, bpm) ==
    (baseInterval * planetMultipliers[p] * 120) \div (10 * bpm)

VARIABLES
    toneSeq,        \* the installed tone module has Transport, Synth and Loop
    tone,           \* module variable Tone: [kind, seq]
    isInitialized,  \* this.isInitialized
    audioState,     \* this.audioState
    settings,       \* this.settings
    timeMultiplier, \* this.timeMultiplier
    audioContext,   \* this.audioContext is not null
    masterVolume,   \* this.masterVolume is not null
    ctx,            \* state of the raw AudioContext of the page
    synths,         \* this.synths: planet -> kind of synth
    planetStates,   \* this.planetStates
    loopsMap,       \* this.loops: planet -> kind of entry
    toneLoops,      \* Tone.Loop objects that are started and not disposed
    timers,         \* pending setTimeout(playNote) callbacks
    transport,      \* Tone.Transport.state
    retryCount,     \* this.retryCount
    hook,           \* useAudioEngine state: [isInitialized, isPlaying]
    obs,            \* what the subscribers and the page have got from the engine
    tasks,          \* async engine calls in flight
    last            \* the engine call that has just completed (history)

engineVars == <<tone, isInitialized, audioState, settings, timeMultiplier,
                audioContext, masterVolume, ctx, synths, planetStates,
                loopsMap, toneLoops, timers, transport, retryCount, hook, obs>>
vars == <<toneSeq, tone, isInitialized, audioState, settings, timeMultiplier,
          audioContext, masterVolume, ctx, synths, planetStates,
          loopsMap, toneLoops, timers, transport, retryCount, hook, obs,
          tasks, last>>

\* The engine's fields as one record, so that the methods compose.
Eng ==
    [tone |-> tone, isInitialized |-> isInitialized, audioState |-> audioState,
     settings |-> settings, timeMultiplier |-> timeMultiplier,
     audioContext |-> audioContext, masterVolume |-> masterVolume,
     ctx |-> ctx, synths |-> synths, planetStates |-> planetStates,
     loopsMap |-> loopsMap, toneLoops |-> toneLoops, timers |-> timers,
     transport |-> transport, retryCount |-> retryCount, hook |-> hook,
     obs |-> obs]

SetEng(e) ==
    /\ toneSeq' = toneSeq
    /\ tone' = e.tone
    /\ isInitialized' = e.isInitialized
    /\ audioState' = e.audioState
    /\ settings' = e.settings
    /\ timeMultiplier' = e.timeMultiplier
    /\ audioContext' = e.audioContext
    /\ masterVolume' = e.masterVolume
    /\ ctx' = e.ctx
    /\ synths' = e.synths
    /\ planetStates' = e.planetStates
    /\ loopsMap' = e.loopsMap
    /\ toneLoops' = e.toneLoops
    /\ timers' = e.timers
    /\ transport' = e.transport
    /\ retryCount' = e.retryCount
    /\ hook' = e.hook
    /\ obs' = e.obs

NoTone == [kind |-> "none", seq |-> FALSE]
DummyTone == [kind |-> "dummy", seq |-> FALSE]
\* a loaded Tone module; seq: Tone.Transport, Tone.Synth and Tone.Loop exist
RealTone == [kind |-> "real", seq |-> toneSeq]

\* volumes are counted in tenths
MinVolume == 0
MaxVolume == 10
DefaultPlanetVolume == 8
\* what handlePlanetMute of useAudioEngine passes to setPlanetVolume
NegInfinity == -1000000
UnmuteVolume == 3
VolumeInputs == {5}

NoState == [present |-> FALSE, isMuted |-> FALSE, volume |-> 0]

\* ---- subscriptions ----

InitAudioState ==
    [isInitialized |-> FALSE, isPlaying |-> FALSE, hasError |-> FALSE,
     error |-> [type |-> "none", recoverable |-> FALSE],
     contextState |-> "unknown"]

\* seen: the snapshot last handed to the state-change subscribers, who start
\* from getAudioState(); graphs: master gain nodes made since the
\* construction or the last dispose() (2: more than one)
\* oldLoops, oldTimers: the Tone.Loops and the pending timers that engines
\* given up with resetAudioEngine() have left behind
\* isMuted: Planet.isMuted of the page's planets; track: the planet whose
\* volume was set last, that volume, and how far a mute and an unmute have
\* followed it ("set", "muted", "unmuted", or "none" when something else did)
\* calc: the last evaluation of one of the pure functions: its name, its
\* arguments and what it gave
NoCalc ==
    [fn |-> "none", p |-> 0, w |-> 0, h |-> 0, t |-> 0, s |-> 0,
     radii |-> <<>>, angle |-> 0, angle2 |-> 0, turn |-> 1, shift |-> 0,
     d1 |-> 0, d2 |-> 0, f1 |-> 0, f2 |-> 0]

\* tempoInputs: the values that the tempo control hands to setTempo;
\* anim: the animation of SolarSystemVisualization
\*   isPlaying, speedMultiplier: the props of the last render
\*   startTime: startTimeRef.current; now: Date.now()
\*   pending: the frame callbacks requested and neither run nor cancelled,
\*            each the animate closure of the render that requested it
\*   refLive: animationRef.current is the id of the last of pending
\*   playedAt: the time of the last change of isPlaying from false to true
\*   elapsed, sincePlay: what the last frame computed, and the time that
\*            had passed since playedAt when it did
NoAnim ==
    [isPlaying |-> FALSE, speedMultiplier |-> DefaultTimeMultiplier,
     startTime |-> 0, now |-> 0, pending |-> <<>>, refLive |-> FALSE,
     playedAt |-> 0, elapsed |-> 0, sincePlay |-> 0]

NoTrack == [p |-> 0, v |-> 0, via |-> "none", phase |-> "none"]

\* audioSettings.volume of useAudioEngine at mount, in tenths
DefaultVolume == 7

\* audioSettings of the hook, its two debounce timers (0: none pending,
\* otherwise the value the timer will hand over), settings.volume of the
\* engine, and the values handed to setMasterVolume and to setTempo since
\* the burst of changes began
NoUi ==
    [volume |-> DefaultVolume, tempo |-> DefaultTempo,
     volumeTimer |-> 0, tempoTimer |-> 0,
     masterVolume |-> DefaultVolume, volumeCalls |-> <<>>, tempoCalls |-> <<>>]

NoObs ==
    [seen |-> InitAudioState, reported |-> FALSE, graphs |-> 0,
     oldLoops |-> 0, oldTimers |-> 0,
     isMuted |-> [p \in Planets |-> FALSE], track |-> NoTrack,
     tempoInputs |-> TempoInputs, anim |-> NoAnim, calc |-> NoCalc,
     ui |-> NoUi, multiplierInputs |-> MultiplierInputs]

\* handleStateChange of useAudioEngine, registered with onStateChange
handleStateChange(h, st) ==
    [isInitialized |-> h.isInitialized \/ st.isInitialized,
     isPlaying |-> st.isPlaying]

\* every callback of stateChangeCallbacks gets a copy of audioState
notifyStateChange(e0) ==
    Let(e0, LAMBDA e : [e EXCEPT !.hook = handleStateChange(e.hook, e.audioState),
                                 !.obs.seen = e.audioState])

\* every callback of errorCallbacks gets the error, then notifyStateChange();
\* obs.reported: a recoverable error was handed to them in the running call
reportError(e, type, recoverable) ==
    notifyStateChange(
        [e EXCEPT !.audioState.hasError = TRUE,
                  !.audioState.error = [type |-> type, recoverable |-> recoverable],
                  !.obs.reported = @ \/ recoverable])

updateContextState(e0) ==
    Let(e0, LAMBDA e :
        notifyStateChange(
            [e EXCEPT !.audioState.contextState =
                          IF e.audioContext THEN e.ctx ELSE "unknown"]))

NoError == [type |-> "none", recoverable |-> FALSE]

clearError(e) ==
    notifyStateChange(
        [e EXCEPT !.audioState.hasError = FALSE,
                  !.audioState.error = NoError,
                  !.retryCount = 0])

\* ---- per-planet schedules ----

\* a started Tone.Loop; mapped: this.loops still refers to it;
\* stale: created before the most recent stop()
NewLoop(bpm) == [tempo |-> bpm, mapped |-> TRUE, stale |-> FALSE]

\* a pending setTimeout(playNote, intervalMs)
NewTimer(bpm) == [tempo |-> bpm, stale |-> FALSE]

\* The loops and the pending timers of a planet are unordered: they are kept
\* in one fixed order, whatever the order they were made in.
Rank(x) ==
    (IF x.stale THEN 0 ELSE 1) + 2 * x.tempo
    + (IF "mapped" \in DOMAIN x /\ x.mapped THEN MaxTempo * 4 ELSE 0)

Before(a, b) == Rank(a) < Rank(b)

Canon(s) == SortSeq(s, Before)

RemoveAt(s, i) == SubSeq(s, 1, i - 1) \o SubSeq(s, i + 1, Len(s))

IsOrphan(l) == ~l.mapped

\* this.loops.set(planetId, ...) drops the reference to the earlier entry
Unmap(ls) == [i \in 1..Len(ls) |-> [ls[i] EXCEPT !.mapped = FALSE]]

MarkStale(s) == [i \in 1..Len(s) |-> [s[i] EXCEPT !.stale = TRUE]]

SchedCount(e, p) == Len(e.toneLoops[p]) + Len(e.timers[p])

\* the schedules of the planets 1..p and those of the engines given up
RECURSIVE SchedTotal(_, _)
SchedTotal(e, p) ==
    IF p = 0 THEN e.obs.oldLoops + e.obs.oldTimers
    ELSE SchedCount(e, p) + SchedTotal(e, p - 1)

\* which branch of schedulePlanet is taken for a planet that has a synth
Substrate(e, p) ==
    IF e.tone.kind = "real" /\ e.tone.seq /\ e.synths[p] = "tone" THEN "loop"
    ELSE IF e.tone.kind = "dummy" /\ e.synths[p] = "tone" THEN "loopfail"
    ELSE IF e.audioContext THEN "timer"
    ELSE "none"

\* schedulePlanet without its guard on settings.isPlaying
schedulePlanet_NoGuard(e0, p) ==
    Let(e0, LAMBDA e :
        IF e.synths[p] = "none" \/ ~e.planetStates[p].present
           \/ e.planetStates[p].isMuted THEN e
        ELSE CASE Substrate(e, p) = "loop" ->
                    [e EXCEPT !.toneLoops[p] =
                                  Canon(Append(Unmap(@), NewLoop(e.settings.tempo))),
                              !.loopsMap[p] = "loop"]
               [] Substrate(e, p) = "loopfail" ->
                    reportError(e, "playback", FALSE)
               [] Substrate(e, p) = "timer" ->
                    [e EXCEPT !.timers[p] =
                                  Canon(Append(@, NewTimer(e.settings.tempo))),
                              !.toneLoops[p] = Canon(Unmap(@)),
                              !.loopsMap[p] = "stub"]
               [] OTHER -> e)

schedulePlanet(e0, p) ==
    Let(e0, LAMBDA e :
        IF ~e.settings.isPlaying THEN e
        ELSE IF e.synths[p] = "none" \/ ~e.planetStates[p].present
                \/ e.planetStates[p].isMuted THEN e
        ELSE CASE Substrate(e, p) = "loop" ->
                    [e EXCEPT !.toneLoops[p] =
                                  Canon(Append(Unmap(@), NewLoop(e.settings.tempo))),
                              !.loopsMap[p] = "loop"]
               [] Substrate(e, p) = "loopfail" ->
                    reportError(e, "playback", FALSE)
               [] Substrate(e, p) = "timer" ->
                    [e EXCEPT !.timers[p] =
                                  Canon(Append(@, NewTimer(e.settings.tempo))),
                              !.toneLoops[p] = Canon(Unmap(@)),
                              !.loopsMap[p] = "stub"]
               [] OTHER -> e)

RECURSIVE scheduleAll(_, _)
scheduleAll(e0, p) ==
    IF p > NumPlanets THEN e0
    ELSE Let(e0, LAMBDA e :
             scheduleAll(IF e.planetStates[p].present /\ ~e.planetStates[p].isMuted
                         THEN schedulePlanet(e, p) ELSE e, p + 1))

HasTransport(e) == e.tone.kind = "real" /\ e.tone.seq

startPlanetLoops(e0) ==
    Let(e0, LAMBDA e :
        scheduleAll([e EXCEPT !.transport =
                         IF HasTransport(e) THEN "started" ELSE @], 1))

stopPlanetLoops(e0) ==
    Let(e0, LAMBDA e :
        [e EXCEPT !.toneLoops = [p \in Planets |-> SelectSeq(e.toneLoops[p], IsOrphan)],
                  !.loopsMap = [p \in Planets |-> "none"],
                  !.transport = IF HasTransport(e) THEN "stopped" ELSE @])

\* the silent engine: audio failed to load and no context exists
Dummy(e) == ~e.audioContext /\ e.audioState.hasError

stopBody(e0) ==
    Let(e0, LAMBDA e :
        IF Dummy(e)
        THEN updateContextState([e EXCEPT !.settings.isPlaying = FALSE,
                                          !.audioState.isPlaying = FALSE])
        ELSE updateContextState([stopPlanetLoops(e) EXCEPT
                                          !.settings.isPlaying = FALSE,
                                          !.audioState.isPlaying = FALSE]))

stop(e) ==
    Let(stopBody(e), LAMBDA s :
        [s EXCEPT !.toneLoops = [p \in Planets |-> Canon(MarkStale(s.toneLoops[p]))],
                  !.timers = [p \in Planets |-> Canon(MarkStale(s.timers[p]))]])

setPlanetVolume(e, p, v) ==
    IF ~e.planetStates[p].present THEN e
    ELSE [e EXCEPT !.planetStates[p].volume = Clamp(MinVolume, MaxVolume, v)]

\* handlePlanetMute of useAudioEngine
handlePlanetMute(e, p, m) ==
    setPlanetVolume(e, p, IF m THEN NegInfinity ELSE UnmuteVolume)

\* handlePlanetClick of the page: the planet's mute flag is toggled
handlePlanetClick(e, p) ==
    [handlePlanetMute(e, p, ~e.obs.isMuted[p]) EXCEPT
         !.obs.isMuted[p] = ~e.obs.isMuted[p]]

\* dispose(): stop(), the maps cleared, the gain node disconnected, the
\* context closed and forgotten; the timers and the loops that stop() has
\* not reached are not touched
\* (first a dispose() that leaves out the stop())
dispose_NoStop(e) ==
    updateContextState(
        [e EXCEPT !.synths = [p \in Planets |-> "none"],
                  !.loopsMap = [p \in Planets |-> "none"],
                  !.planetStates = [p \in Planets |-> NoState],
                  !.ctx = IF e.audioContext THEN "closed" ELSE @,
                  !.audioContext = FALSE,
                  !.isInitialized = FALSE,
                  !.audioState.isInitialized = FALSE,
                  !.audioState.isPlaying = FALSE,
                  !.obs.graphs = 0])

dispose(e) ==
    Let(stop(e), LAMBDA s :
        updateContextState(
            [s EXCEPT !.synths = [p \in Planets |-> "none"],
                      !.loopsMap = [p \in Planets |-> "none"],
                      !.planetStates = [p \in Planets |-> NoState],
                      !.ctx = IF s.audioContext THEN "closed" ELSE @,
                      !.audioContext = FALSE,
                      !.isInitialized = FALSE,
                      !.audioState.isInitialized = FALSE,
                      !.audioState.isPlaying = FALSE,
                      !.obs.graphs = 0]))

\* new CelestialAudioEngine(): the fields of the instance; the module's Tone,
\* its context and its Transport are those the earlier instance used
construct(e) ==
    [e EXCEPT !.isInitialized = FALSE,
              !.audioState = InitAudioState,
              !.settings = [isPlaying |-> FALSE, tempo |-> DefaultTempo],
              !.timeMultiplier = DefaultTimeMultiplier,
              !.audioContext = FALSE,
              !.masterVolume = FALSE,
              !.synths = [p \in Planets |-> "none"],
              !.planetStates = [p \in Planets |-> NoState],
              !.loopsMap = [p \in Planets |-> "none"],
              !.toneLoops = [p \in Planets |-> <<>>],
              !.timers = [p \in Planets |-> <<>>],
              !.retryCount = 0,
              !.obs.seen = InitAudioState,
              !.obs.graphs = 0]

RECURSIVE LoopTotal(_, _)
LoopTotal(e, p) == IF p = 0 THEN 0 ELSE Len(e.toneLoops[p]) + LoopTotal(e, p - 1)

RECURSIVE TimerTotal(_, _)
TimerTotal(e, p) == IF p = 0 THEN 0 ELSE Len(e.timers[p]) + TimerTotal(e, p - 1)

\* resetAudioEngine() and the getAudioEngine() that follows it
resetAudioEngine(e) ==
    Let(dispose(e), LAMBDA d :
        [construct(d) EXCEPT !.obs.oldLoops = @ + LoopTotal(d, NumPlanets),
                             !.obs.oldTimers = @ + TimerTotal(d, NumPlanets)])

\* an interval that shrinks as the time multiplier grows
planetInterval_PerMultiplier(e, p) ==
    (calculatePlanetInterval(p, e.settings.tempo) * DefaultTimeMultiplier)
        \div e.timeMultiplier

\* calculatePlanetInterval(planetId) of engine e
planetInterval(e, p) == calculatePlanetInterval(p, e.settings.tempo)

\* setTempo that stores the value as it is given
setTempo_Unclamped(e, bpm) ==
    Let([e EXCEPT !.settings.tempo = bpm], LAMBDA s :
        IF s.settings.isPlaying THEN startPlanetLoops(stopPlanetLoops(s)) ELSE s)

setTempo(e, bpm) ==
    Let([e EXCEPT !.settings.tempo = Clamp(MinTempo, MaxTempo, bpm)], LAMBDA s :
        IF s.settings.isPlaying THEN startPlanetLoops(stopPlanetLoops(s)) ELSE s)

setTimeMultiplier(e, m) ==
    Let([e EXCEPT !.timeMultiplier =
             Clamp(MinTimeMultiplier, MaxTimeMultiplier, m)], LAMBDA s :
        IF s.settings.isPlaying THEN startPlanetLoops(stopPlanetLoops(s)) ELSE s)

\* setPlanetMute that changes the flag and schedules nothing
setPlanetMute_FlagOnly(e0, p, m) ==
    Let(e0, LAMBDA e :
        IF ~e.planetStates[p].present THEN e
        ELSE [e EXCEPT !.planetStates[p].isMuted = m])

setPlanetMute(e0, p, m) ==
    Let(e0, LAMBDA e :
        IF ~e.planetStates[p].present THEN e
        ELSE Let([e EXCEPT !.planetStates[p].isMuted = m], LAMBDA s :
                 IF ~m /\ s.settings.isPlaying THEN schedulePlanet(s, p) ELSE s))

\* ---- async calls ----

Tasks == {1, 2}

NoPre ==
    [playing |-> FALSE, initialized |-> FALSE, dummy |-> FALSE,
     uiPlaying |-> FALSE, wasMuted |-> FALSE,
     counts |-> [p \in Planets |-> 0], prev |-> "none"]

\* what an async engine call saw when it was made (history, for the claims)
Pre ==
    [playing |-> settings.isPlaying,
     initialized |-> isInitialized,
     dummy |-> isInitialized /\ Dummy(Eng),
     uiPlaying |-> hook.isPlaying,
     wasMuted |-> FALSE,
     counts |-> [p \in Planets |-> SchedCount(Eng, p)],
     prev |-> IF last.op = "stop" THEN "stop" ELSE "none"]

\* what a synchronous engine call on planet p (0: none) saw
SyncPre(p) ==
    [NoPre EXCEPT !.playing = settings.isPlaying,
                  !.initialized = isInitialized,
                  !.dummy = isInitialized /\ Dummy(Eng),
                  !.uiPlaying = hook.isPlaying,
                  !.wasMuted = p \in Planets /\ planetStates[IF p \in Planets THEN p ELSE 1].isMuted]

NoLast ==
    [op |-> "none", p |-> 0, res |-> "none", atomic |-> TRUE, fail |-> "none",
     muted |-> 0, reported |-> FALSE, pre |-> NoPre]

Idle ==
    [op |-> "idle", stack |-> <<>>, susp |-> FALSE, fail |-> "none", pre |-> NoPre]

\* a call whose recursion did not come to an end within MaxDepth frames
Diverged ==
    [op |-> "diverged", stack |-> <<>>, susp |-> FALSE, fail |-> "none",
     pre |-> NoPre]

Frame(fn, pc, err) == [fn |-> fn, pc |-> pc, err |-> err]

\* the awaits that the environment settles: other handlers run meanwhile
SuspPcs == {"i_import1", "i_import2", "i_tonestart", "s_resume", "r_resume"}

\* a call in execution: engine e, stack stk, completion value r handed to
\* the awaiting frame, f the construction failure the call has met
Cfg(e, stk, r, f) == [e |-> e, stk |-> stk, r |-> r, f |-> f]

Top(c) == c.stk[Len(c.stk)]
Base(c) == SubSeq(c.stk, 1, Len(c.stk) - 1)
Goto(c, pc) == Append(Base(c), [Top(c) EXCEPT !.pc = pc])
Call(c, retpc, fn, pc, err) == Append(Goto(c, retpc), Frame(fn, pc, err))

\* ---- initialize() ----

InitError == [type |-> "initialization", recoverable |-> TRUE]
PlaybackError == [type |-> "playback", recoverable |-> TRUE]
ContextError == [type |-> "context", recoverable |-> TRUE]

\* the catch of the import block: a dummy Tone and the silent engine
initializeDummy(e) ==
    [e EXCEPT !.tone = DummyTone,
              !.isInitialized = TRUE,
              !.audioState = [isInitialized |-> TRUE, isPlaying |-> FALSE,
                              hasError |-> TRUE,
                              error |-> [type |-> "initialization",
                                         recoverable |-> FALSE],
                              contextState |-> "unknown"]]

\* the master gain node was created and connected to the destination
initializeGain(e) ==
    clearError(updateContextState(
        [e EXCEPT !.obs.graphs = IF @ = 0 THEN 1 ELSE 2,
                  !.masterVolume = TRUE,
                  !.audioContext = TRUE,
                  !.isInitialized = TRUE,
                  !.audioState.isInitialized = TRUE]))

\* Tone.start() and AudioContext.resume() resolve: the context runs
Resumed(e) == [e EXCEPT !.ctx = IF @ = "suspended" THEN "running" ELSE @]

InitializeEntry(c) ==
    IF c.e.isInitialized THEN {Cfg(c.e, Base(c), "ok", c.f)}
    ELSE IF c.e.tone.kind = "none" THEN {Cfg(c.e, Goto(c, "i_import1"), "none", c.f)}
    ELSE {Cfg(c.e, Goto(c, "i_gain"), "none", c.f)}

\* await import('tone') settles
InitializeImport(c) ==
    {Cfg([c.e EXCEPT !.tone = RealTone], Goto(c, "i_tonestart"), "none", c.f),
     Cfg(c.e, Goto(c, "i_import2"), "none", c.f)}

\* await import('tone/build/Tone') settles
InitializeImportBuild(c) ==
    {Cfg([c.e EXCEPT !.tone = RealTone], Goto(c, "i_tonestart"), "none", c.f),
     Cfg(initializeDummy(c.e), Base(c), "ok", "lib")}

\* await Tone.start() settles
InitializeToneStart(c) ==
    {Cfg(Resumed(c.e), Goto(c, "i_gain"), "none", c.f),
     Cfg(initializeDummy(c.e), Base(c), "ok", "lib")}

\* the catch of initialize()
InitializeCatch(c) ==
    Cfg(reportError(c.e, "initialization", TRUE),
        Call(c, "i_rec", "attemptRecovery", "r_entry", InitError), "none", "gain")

\* creation of the gain node: the raw context of a dummy Tone is null
InitializeGain(c) ==
    IF c.e.tone.kind = "real"
    THEN {Cfg(initializeGain(c.e), Base(c), "ok", "none"), InitializeCatch(c)}
    ELSE {InitializeCatch(c)}

InitializeRecovered(c) ==
    {Cfg(c.e, Base(c), IF c.r = "true" THEN "ok" ELSE "throw", c.f)}

\* ---- start() ----

\* a dummy branch of start() that ends like the audible one, with clearError()
startDummy_ClearsError(e) ==
    clearError(updateContextState([e EXCEPT !.settings.isPlaying = TRUE,
                                            !.audioState.isPlaying = TRUE]))

\* the dummy branch of start()
startDummy(e) ==
    updateContextState([e EXCEPT !.settings.isPlaying = TRUE,
                                 !.audioState.isPlaying = TRUE])

\* the end of start(): the loops, then the flags
startFinish(e) ==
    Let(startPlanetLoops(e), LAMBDA s :
        clearError(updateContextState([s EXCEPT !.settings.isPlaying = TRUE,
                                                !.audioState.isPlaying = TRUE])))

\* the outer catch of start()
StartCatch(c) ==
    Cfg(reportError(c.e, "playback", TRUE),
        Call(c, "s_rec", "attemptRecovery", "r_entry", PlaybackError), "none", c.f)

HasPlanets(e) == \E p \in Planets : e.planetStates[p].present

StartEntry(c) ==
    IF ~c.e.isInitialized
    THEN {Cfg(c.e, Call(c, "s_ctx", "initialize", "i_entry", NoError), "none", c.f)}
    ELSE {Cfg(c.e, Goto(c, "s_ctx"), "ok", c.f)}

StartContext(c) ==
    IF c.r = "throw" THEN {StartCatch(c)}
    ELSE IF Dummy(c.e) THEN {Cfg(startDummy(c.e), Base(c), "ok", c.f)}
    ELSE IF ~c.e.audioContext THEN {StartCatch(c)}
    ELSE IF c.e.ctx = "suspended" THEN {Cfg(c.e, Goto(c, "s_resume"), "none", c.f)}
    ELSE {Cfg(c.e, Goto(c, "s_planets"), "ok", c.f)}

\* await this.audioContext.resume() settles
StartResume(c) ==
    {Cfg(updateContextState(Resumed(c.e)), Goto(c, "s_planets"), "ok", "none"),
     Cfg(reportError(c.e, "context", TRUE),
         Call(c, "s_recctx", "attemptRecovery", "r_entry", ContextError),
         "none", "resume")}

StartContextRecovered(c) ==
    IF c.r = "true" THEN {Cfg(c.e, Goto(c, "s_planets"), "ok", c.f)}
    ELSE {StartCatch(c)}

StartPlanets(c) ==
    IF ~HasPlanets(c.e)
    THEN {Cfg(c.e, Call(c, "s_loops", "initializePlanets", "p_entry", NoError),
              "none", c.f)}
    ELSE {Cfg(startFinish(c.e), Base(c), "ok", c.f)}

\* initializePlanets(PLANETS) has returned
StartLoops(c) ==
    IF c.r = "throw" THEN {StartCatch(c)}
    ELSE {Cfg(startFinish(c.e), Base(c), "ok", c.f)}

StartRecovered(c) ==
    {Cfg(c.e, Base(c), IF c.r = "true" THEN "ok" ELSE "throw", c.f)}

\* ---- initializePlanets() ----

SynthKind(e) == IF e.tone.kind = "real" /\ e.tone.seq THEN "tone" ELSE "webaudio"

\* createPlanetSynth for every planet; it succeeds for the planets in S
createPlanetSynths(e0, S) ==
    Let(e0, LAMBDA e :
        Let([e EXCEPT !.synths = [p \in Planets |->
                          IF p \in S THEN SynthKind(e) ELSE @[p]],
                      !.planetStates = [p \in Planets |->
                          IF p \in S
                          THEN [present |-> TRUE, isMuted |-> e.obs.isMuted[p],
                                volume |-> DefaultPlanetVolume]
                          ELSE @[p]]],
            LAMBDA s : IF S = Planets THEN s
                       ELSE reportError(s, "initialization", FALSE)))

PlanetsCatch(c, e) ==
    Cfg(reportError(e, "initialization", TRUE),
        Call(c, "p_rec", "attemptRecovery", "r_entry", InitError), "none", c.f)

PlanetsEntry(c) ==
    IF ~c.e.isInitialized
    THEN {Cfg(c.e, Call(c, "p_create", "initialize", "i_entry", NoError), "none", c.f)}
    ELSE {Cfg(c.e, Goto(c, "p_create"), "ok", c.f)}

\* an initializePlanets that gives up when the synth of any planet fails
PlanetsCreate_AnyFailureThrows(c) ==
    IF c.r = "throw" THEN {PlanetsCatch(c, c.e)}
    ELSE {IF S # Planets THEN PlanetsCatch(c, createPlanetSynths(c.e, S))
          ELSE Cfg(createPlanetSynths(c.e, S), Base(c), "ok", c.f) :
          S \in IF c.e.tone.kind = "none" THEN {{}} ELSE SUBSET Planets}

PlanetsCreate(c) ==
    IF c.r = "throw" THEN {PlanetsCatch(c, c.e)}
    ELSE {IF S = {} THEN PlanetsCatch(c, createPlanetSynths(c.e, S))
          ELSE Cfg(createPlanetSynths(c.e, S), Base(c), "ok", c.f) :
          S \in IF c.e.tone.kind = "none" THEN {{}} ELSE SUBSET Planets}

PlanetsRecovered(c) ==
    {Cfg(c.e, Base(c), IF c.r = "true" THEN "ok" ELSE "throw", c.f)}

\* ---- attemptRecovery() ----

\* attemptRecovery without the limit on the number of attempts
RecoveryEntry_NoLimit(c) ==
    IF ~Top(c).err.recoverable
    THEN {Cfg(c.e, Base(c), "false", c.f)}
    ELSE LET e == [c.e EXCEPT !.retryCount = @ + 1] IN
         CASE Top(c).err.type = "context" ->
                 IF e.audioContext /\ e.ctx = "suspended"
                 THEN {Cfg(e, Goto(c, "r_resume"), "none", c.f)}
                 ELSE {Cfg(e, Base(c), "false", c.f)}
           [] Top(c).err.type = "initialization" ->
                 {Cfg(e, Call(c, "r_ret", "initialize", "i_entry", NoError),
                      "none", c.f)}
           [] Top(c).err.type = "playback" ->
                 IF e.settings.isPlaying
                 THEN {Cfg(e, Call(c, "r_ret", "start", "s_entry", NoError),
                           "none", c.f)}
                 ELSE {Cfg(e, Base(c), "false", c.f)}

\* an attemptRecovery that starts counting afresh when its attempts are used
RecoveryEntry_ResetsWhenSpent(c) ==
    IF ~Top(c).err.recoverable
    THEN {Cfg(c.e, Base(c), "false", c.f)}
    ELSE LET e == [c.e EXCEPT !.retryCount =
                       IF @ >= maxRetries THEN 1 ELSE @ + 1] IN
         CASE Top(c).err.type = "context" ->
                 IF e.audioContext /\ e.ctx = "suspended"
                 THEN {Cfg(e, Goto(c, "r_resume"), "none", c.f)}
                 ELSE {Cfg(e, Base(c), "false", c.f)}
           [] Top(c).err.type = "initialization" ->
                 {Cfg(e, Call(c, "r_ret", "initialize", "i_entry", NoError),
                      "none", c.f)}
           [] Top(c).err.type = "playback" ->
                 IF e.settings.isPlaying
                 THEN {Cfg(e, Call(c, "r_ret", "start", "s_entry", NoError),
                           "none", c.f)}
                 ELSE {Cfg(e, Base(c), "false", c.f)}

RecoveryEntry(c) ==
    IF ~Top(c).err.recoverable \/ c.e.retryCount >= maxRetries
    THEN {Cfg(c.e, Base(c), "false", c.f)}
    ELSE LET e == [c.e EXCEPT !.retryCount = @ + 1] IN
         CASE Top(c).err.type = "context" ->
                 IF e.audioContext /\ e.ctx = "suspended"
                 THEN {Cfg(e, Goto(c, "r_resume"), "none", c.f)}
                 ELSE {Cfg(e, Base(c), "false", c.f)}
           [] Top(c).err.type = "initialization" ->
                 {Cfg(e, Call(c, "r_ret", "initialize", "i_entry", NoError),
                      "none", c.f)}
           [] Top(c).err.type = "playback" ->
                 IF e.settings.isPlaying
                 THEN {Cfg(e, Call(c, "r_ret", "start", "s_entry", NoError),
                           "none", c.f)}
                 ELSE {Cfg(e, Base(c), "false", c.f)}

\* await this.audioContext.resume() of the context case settles
RecoveryResume(c) ==
    {Cfg(updateContextState(Resumed(c.e)), Base(c), "true", "none"),
     Cfg(reportError(c.e, "unknown", FALSE), Base(c), "false", "resume")}

\* the initialize() or start() of the recovery has settled
RecoveryReturned(c) ==
    IF c.r = "ok" THEN {Cfg(c.e, Base(c), "true", c.f)}
    ELSE {Cfg(reportError(c.e, "unknown", FALSE), Base(c), "false", c.f)}

\* ---- execution of a call between two awaits ----

\* one step of the frame on top of the stack
Step(c) ==
    CASE Top(c).pc = "i_entry" -> InitializeEntry(c)
      [] Top(c).pc = "i_gain" -> InitializeGain(c)
      [] Top(c).pc = "i_rec" -> InitializeRecovered(c)
      [] Top(c).pc = "s_entry" -> StartEntry(c)
      [] Top(c).pc = "s_ctx" -> StartContext(c)
      [] Top(c).pc = "s_recctx" -> StartContextRecovered(c)
      [] Top(c).pc = "s_planets" -> StartPlanets(c)
      [] Top(c).pc = "s_loops" -> StartLoops(c)
      [] Top(c).pc = "s_rec" -> StartRecovered(c)
      [] Top(c).pc = "p_entry" -> PlanetsEntry(c)
      [] Top(c).pc = "p_create" -> PlanetsCreate(c)
      [] Top(c).pc = "p_rec" -> PlanetsRecovered(c)
      [] Top(c).pc = "r_entry" -> RecoveryEntry(c)
      [] Top(c).pc = "r_ret" -> RecoveryReturned(c)

\* the await that suspends the call is settled by the environment
Settle(c) ==
    CASE Top(c).pc = "i_import1" -> InitializeImport(c)
      [] Top(c).pc = "i_import2" -> InitializeImportBuild(c)
      [] Top(c).pc = "i_tonestart" -> InitializeToneStart(c)
      [] Top(c).pc = "s_resume" -> StartResume(c)
      [] Top(c).pc = "r_resume" -> RecoveryResume(c)

Settled(c) ==
    \/ c.stk = <<>>
    \/ Len(c.stk) > MaxDepth
    \/ Top(c).pc \in SuspPcs

\* the call runs synchronously to its next await or to its completion
RECURSIVE Run(_)
Run(c) == IF Settled(c) THEN {c} ELSE UNION {Run(d) : d \in Step(c)}

Apply(t, op, pre, atomic, x) ==
    IF Len(x.stk) > MaxDepth
    THEN /\ tasks' = [tasks EXCEPT ![t] = Diverged]
         /\ last' = NoLast
         /\ UNCHANGED <<toneSeq, engineVars>>
    ELSE /\ SchedTotal(x.e, NumPlanets) <= MaxSched
         /\ IF x.stk = <<>>
            THEN /\ SetEng([x.e EXCEPT !.obs.reported = FALSE])
                 /\ tasks' = [tasks EXCEPT ![t] = Idle]
                 /\ last' = [op |-> op, p |-> 0, res |-> x.r, atomic |-> atomic,
                             fail |-> x.f, muted |-> 0,
                             reported |-> x.e.obs.reported, pre |-> pre]
            ELSE /\ SetEng(x.e)
                 /\ tasks' = [tasks EXCEPT ![t] =
                                [op |-> op, stack |-> x.stk, susp |-> TRUE,
                                 fail |-> x.f, pre |-> pre]]
                 /\ last' = NoLast

\* a call of an async method: it runs to its first await
Spawn(t, op, fn) ==
    /\ tasks[t].op = "idle"
    /\ \E c \in {Cfg(Eng, <<Frame(fn, IF fn = "start" THEN "s_entry" ELSE "i_entry",
                                   NoError)>>, "none", "none")} :
          \E x \in Run(c) : Apply(t, op, Pre, TRUE, x)

\* the awaited promise of a suspended call settles and the call runs on
Resume(t, pc) ==
    /\ tasks[t].stack # <<>>
    /\ tasks[t].stack[Len(tasks[t].stack)].pc = pc
    /\ \E c \in {Cfg(Eng, tasks[t].stack, "none", tasks[t].fail)} :
          \E d \in Settle(c) :
             \E x \in Run(d) : Apply(t, tasks[t].op, tasks[t].pre, FALSE, x)

\* a mute command (m) or an unmute command for planet p, given by way of
\* via, after the volume that is tracked
Track(tr, p, m, via) ==
    IF tr.p # p \/ tr.phase = "none" THEN tr
    ELSE IF tr.phase = "set" /\ m THEN [tr EXCEPT !.via = via, !.phase = "muted"]
    ELSE IF tr.phase = "muted" /\ ~m /\ tr.via = via
         THEN [tr EXCEPT !.phase = "unmuted"]
    ELSE NoTrack

\* a synchronous engine method called from the event loop
Sync(op, p, e0) ==
    \E e \in {e0} :
        /\ SchedTotal(e, NumPlanets) <= MaxSched
        /\ SetEng(e)
        /\ last' = [op |-> op, p |-> p, res |-> "ok", atomic |-> TRUE,
                    fail |-> "none", muted |-> 0, reported |-> FALSE,
                    pre |-> SyncPre(p)]
        /\ UNCHANGED tasks

\* ---- the engine's methods as the application calls them ----

CallInitialize(t) == Spawn(t, "initialize", "initialize")

CallStart(t) == Spawn(t, "start", "start")

ImportSettles(t) == Resume(t, "i_import1")

ImportBuildSettles(t) == Resume(t, "i_import2")

ToneStartSettles(t) == Resume(t, "i_tonestart")

ResumeSettles(t) == Resume(t, "s_resume")

RecoveryResumeSettles(t) == Resume(t, "r_resume")

SetToneReference == Sync("setToneReference", 0, [Eng EXCEPT !.tone = RealTone])

Stop == Sync("stop", 0, stop(Eng))

SetTempo == \E bpm \in obs.tempoInputs : Sync("setTempo", 0, setTempo(Eng, bpm))

SetTimeMultiplier ==
    \E m \in obs.multiplierInputs :
        Sync("setTimeMultiplier", 0, setTimeMultiplier(Eng, m))

SetPlanetMute ==
    \E p \in Planets, m \in BOOLEAN :
        Sync(IF m THEN "mute" ELSE "unmute", p,
             [setPlanetMute(Eng, p, m) EXCEPT
                  !.obs.track = Track(@, p, m, "engine")])

SetPlanetVolume ==
    \E p \in Planets, v \in VolumeInputs :
        Sync("setPlanetVolume", p,
             Let(setPlanetVolume(Eng, p, v), LAMBDA e :
                 [e EXCEPT !.obs.track =
                      IF e.planetStates[p].present
                      THEN [p |-> p, v |-> e.planetStates[p].volume,
                            via |-> "none", phase |-> "set"]
                      ELSE NoTrack]))

HandlePlanetClick ==
    \E p \in Planets :
        Sync("click", p,
             [handlePlanetClick(Eng, p) EXCEPT
                  !.obs.track = Track(@, p, ~obs.isMuted[p], "ui")])

\* handleTogglePlay of useAudioEngine
TogglePlay(t) ==
    IF ~hook.isInitialized
    THEN tasks[t].op = "idle" /\ Sync("togglePlay", 0, Eng)
    ELSE IF hook.isPlaying
         THEN tasks[t].op = "idle" /\ Sync("togglePlay", 0, stop(Eng))
         ELSE Spawn(t, "togglePlay", "start")

\* ---- callbacks of the schedules ----

\* a tone is triggered for planet p (history); muted counts
\* the tones in a row that p has triggered while its state says muted
ToneEvent(p) ==
    [op |-> "tone", p |-> p, res |-> "ok", atomic |-> TRUE, fail |-> "none",
     muted |-> IF ~planetStates[p].isMuted THEN 0
               ELSE IF last.op = "tone" /\ last.p = p /\ last.muted > 0 THEN 2
               ELSE 1,
     reported |-> FALSE, pre |-> NoPre]

\* a setTimeout(playNote) fires: playNote triggers a tone and re-arms itself,
\* or returns when the engine is stopped or the planet muted
TimerFires ==
    \E p \in Planets : \E i \in 1..Len(timers[p]) :
        /\ IF ~settings.isPlaying \/ planetStates[p].isMuted
           THEN /\ timers' = [timers EXCEPT ![p] = RemoveAt(@, i)]
                /\ last' = NoLast
           ELSE /\ timers' = timers
                /\ last' = ToneEvent(p)
        /\ UNCHANGED <<toneSeq, tone, isInitialized, audioState, settings,
                       timeMultiplier, audioContext, masterVolume, ctx, synths,
                       planetStates, loopsMap, toneLoops, transport, retryCount,
                       hook, obs, tasks>>

\* the transport calls back a Tone.Loop: the callback triggers the tone
LoopFires ==
    \E p \in Planets : \E i \in 1..Len(toneLoops[p]) :
        /\ transport = "started"
        /\ last' = ToneEvent(p)
        /\ UNCHANGED <<toneSeq, tone, isInitialized, audioState, settings,
                       timeMultiplier, audioContext, masterVolume, ctx, synths,
                       planetStates, loopsMap, toneLoops, timers, transport,
                       retryCount, hook, obs, tasks>>

Dispose == Sync("dispose", 0, dispose(Eng))

ResetAudioEngine ==
    /\ \A t \in Tasks : tasks[t].op = "idle"
    /\ Sync("reset", 0, resetAudioEngine(Eng))

\* a timer of an engine given up fires: that engine is not playing
OldTimerFires ==
    /\ obs.oldTimers > 0
    /\ obs' = [obs EXCEPT !.oldTimers = @ - 1]
    /\ last' = [NoLast EXCEPT !.op = "oldTimer"]
    /\ UNCHANGED <<toneSeq, tone, isInitialized, audioState, settings,
                   timeMultiplier, audioContext, masterVolume, ctx, synths,
                   planetStates, loopsMap, toneLoops, timers, transport,
                   retryCount, hook, tasks>>

\* the transport calls back a Tone.Loop of an engine given up
OldLoopFires ==
    /\ obs.oldLoops > 0 /\ transport = "started"
    /\ last' = [NoLast EXCEPT !.op = "oldLoop"]
    /\ UNCHANGED <<toneSeq, tone, isInitialized, audioState, settings,
                   timeMultiplier, audioContext, masterVolume, ctx, synths,
                   planetStates, loopsMap, toneLoops, timers, transport,
                   retryCount, hook, obs, tasks>>

\* ---- the animation of SolarSystemVisualization ----

SpeedInputs == {DefaultTimeMultiplier, MaxTimeMultiplier}

\* cancelAnimationFrame(animationRef.current): an id whose callback has run
\* or was cancelled cancels nothing
cancelAnimationFrame(a) ==
    IF a.refLive
    THEN [a EXCEPT !.pending = SubSeq(@, 1, Len(@) - 1), !.refLive = FALSE]
    ELSE a

\* animationRef.current = requestAnimationFrame(animate)
requestAnimationFrame(a) ==
    [a EXCEPT !.pending = Append(@, [isPlaying |-> a.isPlaying,
                                     speedMultiplier |-> a.speedMultiplier]),
              !.refLive = TRUE]

\* a control effect whose cleanup cancels nothing
controlEffect_NoCleanup(a, playing, speed) ==
    Let([a EXCEPT !.isPlaying = playing, !.speedMultiplier = speed,
                  !.playedAt = IF playing /\ ~a.isPlaying THEN a.now ELSE @],
        LAMBDA r :
            IF playing
            THEN requestAnimationFrame([r EXCEPT !.startTime = r.now])
            ELSE cancelAnimationFrame(r))

\* a render with new props: the cleanup of the control effect, then the effect
controlEffect(a, playing, speed) ==
    Let([cancelAnimationFrame(a) EXCEPT
             !.isPlaying = playing, !.speedMultiplier = speed,
             !.playedAt = IF playing /\ ~a.isPlaying THEN a.now ELSE @],
        LAMBDA r :
            IF playing
            THEN requestAnimationFrame([r EXCEPT !.startTime = r.now])
            ELSE cancelAnimationFrame(r))

\* the frame callback i runs: animate as the render that requested it made it
animate(a, i) ==
    Let([a EXCEPT !.pending = RemoveAt(@, i),
                  !.refLive = @ /\ i # Len(a.pending)],
        LAMBDA r :
            IF ~a.pending[i].isPlaying THEN r
            ELSE [r EXCEPT !.elapsed = r.now - r.startTime,
                           !.sincePlay = r.now - r.playedAt,
                           !.pending = Append(@, a.pending[i]),
                           !.refLive = TRUE])

AnimStep(op, res, a) ==
    /\ obs' = [obs EXCEPT !.anim = a]
    /\ last' = [NoLast EXCEPT !.op = op, !.res = res]
    /\ UNCHANGED <<toneSeq, tone, isInitialized, audioState, settings,
                   timeMultiplier, audioContext, masterVolume, ctx, synths,
                   planetStates, loopsMap, toneLoops, timers, transport,
                   retryCount, hook, tasks>>

\* the page renders the visualization with isPlaying changed
SetIsPlaying ==
    AnimStep("isPlaying", "ok",
             controlEffect(obs.anim, ~obs.anim.isPlaying, obs.anim.speedMultiplier))

\* the page renders the visualization with another speedMultiplier
SetSpeedMultiplier ==
    \E speed \in SpeedInputs \ {obs.anim.speedMultiplier} :
        AnimStep("speedMultiplier", "ok",
                 controlEffect(obs.anim, obs.anim.isPlaying, speed))

\* the browser runs a frame callback
FrameFires ==
    \E i \in 1..Len(obs.anim.pending) :
        AnimStep("frame", IF obs.anim.pending[i].isPlaying THEN "ok" ELSE "none",
                 animate(obs.anim, i))

\* the wall clock goes on
Tick ==
    /\ obs.anim.now < MaxTime
    /\ AnimStep("tick", "ok", [obs.anim EXCEPT !.now = @ + 1])

\* ---- the geometry of SolarSystemVisualization ----

\* PLANETS.length and the margin in pixels
PlanetCount == 8
Margin == 80

ContainerSizes == {95, 160, 200, 300, 320, 400, 450, 500, 600, 700, 900}

\* lengths are counted in 1/(4 * PlanetCount) of a pixel, which makes
\* (availableRadius / PLANETS.length) * 1.5 an integer
availableRadius(width, height) == 2 * PlanetCount * (Min(width, height) - 2 * Margin)

orbitSpacing(width, height) ==
    ((availableRadius(width, height) \div PlanetCount) * 3) \div 2

\* orbitSpacing * (index + 1) for the planet with number p = index + 1
orbitRadius(width, height, p) == orbitSpacing(width, height) * p

CalcStep(c) ==
    /\ obs' = [obs EXCEPT !.calc = c]
    /\ last' = [NoLast EXCEPT !.op = c.fn, !.res = "ok"]
    /\ UNCHANGED <<toneSeq, tone, isInitialized, audioState, settings,
                   timeMultiplier, audioContext, masterVolume, ctx, synths,
                   planetStates, loopsMap, toneLoops, timers, transport,
                   retryCount, hook, tasks>>

\* the visualization is rendered in a container of width by height
Resize ==
    \E width \in ContainerSizes, height \in ContainerSizes :
        CalcStep([NoCalc EXCEPT
                      !.fn = "resize", !.w = width, !.h = height,
                      !.radii = [p \in Planets |-> orbitRadius(width, height, p)]])

\* ---- the orbital model ----

\* PLANETS[i].orbitalPeriod in days
orbitalPeriod == <<88, 225, 365, 687, 4333, 10759, 30687, 60190>>
SecondsPerDay == 86400
\* elapsed milliseconds times speedMultiplier that make one visual day:
\* 1000 ms, speedMultiplier / 1000 and VISUAL_ORBITAL_SCALE = 0.01
VisualDay == 10000

ElapsedInputs == {-5000, -1, 0, 1, 250, 5000, 76032, 194400, 200000}
OrbitSpeedInputs == {0, 1, 100, 1000, 10000}

\* the % of JavaScript: the remainder has the sign of the dividend
Rem(a, b) == IF a >= 0 THEN a % b ELSE 0 - ((0 - a) % b)

periodInSeconds(p) == orbitalPeriod[p] * SecondsPerDay

\* Angles of calculateOrbitPosition are counted in 1/periodInSeconds of a
\* revolution: timeElapsed * speedMultiplier * angularVelocity is then
\* timeElapsed * speedMultiplier, and 2 * Math.PI is periodInSeconds.

\* an orbital model with half the angular velocity
calculateOrbitPosition_HalfVelocity(p, timeElapsed, speedMultiplier) ==
    Rem((timeElapsed * speedMultiplier) \div 2, periodInSeconds(p))

calculateOrbitPosition(p, timeElapsed, speedMultiplier) ==
    Rem(timeElapsed * speedMultiplier, periodInSeconds(p))

\* Angles of animate are counted in 1/(VisualDay * orbitalPeriod) of a
\* revolution: (scaledElapsed / visualOrbitalPeriod) * 2 * Math.PI is then
\* the elapsed milliseconds times speedMultiplier.
visualTurn(p) == VisualDay * orbitalPeriod[p]

animateAngle(p, elapsed, speedMultiplier) == elapsed * speedMultiplier

\* the time that one revolution takes at a speed, where it is a whole number
PeriodAt(turn, speedMultiplier) ==
    IF speedMultiplier > 0 /\ turn % speedMultiplier = 0
    THEN turn \div speedMultiplier
    ELSE 0

\* calculateOrbitPosition at a time and one period later
CalculateOrbitPosition ==
    \E p \in Planets, t \in ElapsedInputs, speed \in OrbitSpeedInputs :
        \E T \in {PeriodAt(periodInSeconds(p), speed)} :
            CalcStep([NoCalc EXCEPT
                !.fn = "calculateOrbitPosition", !.p = p, !.t = t, !.s = speed,
                !.turn = periodInSeconds(p), !.shift = T,
                !.angle = calculateOrbitPosition(p, t, speed),
                !.angle2 = calculateOrbitPosition(p, t + T, speed)])

\* the angle that a frame of animate computes, at a time and one period later
AnimateAngle ==
    \E p \in Planets, t \in ElapsedInputs, speed \in OrbitSpeedInputs :
        \E T \in {PeriodAt(visualTurn(p), speed)} :
            CalcStep([NoCalc EXCEPT
                !.fn = "animate", !.p = p, !.t = t, !.s = speed,
                !.turn = visualTurn(p), !.shift = T,
                !.angle = animateAngle(p, t, speed),
                !.angle2 = animateAngle(p, t + T, speed)])

\* ---- the volume and tempo controls of useAudioEngine ----

VolumeLevels == {3, 9}
TempoLevels == {90, 150}

\* setMasterVolume of the engine
setMasterVolume(e, volume) ==
    [e EXCEPT !.obs.ui.masterVolume = Clamp(MinVolume, MaxVolume, volume),
              !.obs.ui.volumeCalls = Append(@, volume)]

\* setTempo of the engine, as the hook calls it
callSetTempo(e, bpm) ==
    Let(setTempo(e, bpm), LAMBDA s :
        [s EXCEPT !.obs.ui.tempoCalls = Append(@, bpm)])

\* the effect on [audioEngine, audioSettings.volume, audioSettings.tempo],
\* which runs after a render in which one of them differs from before
settingsEffect(e, before) ==
    IF e.obs.ui.volume = before.volume /\ e.obs.ui.tempo = before.tempo
    THEN e
    ELSE callSetTempo(setMasterVolume(e, e.obs.ui.volume), e.obs.ui.tempo)

handleVolumeChange(e, volume) ==
    settingsEffect(
        [e EXCEPT !.obs.ui.volume = volume,
                  !.obs.ui.volumeTimer = volume,
                  !.obs.ui.volumeCalls =
                      IF e.obs.ui.volumeTimer = 0 THEN <<>> ELSE @],
        e.obs.ui)

handleTempoChange(e, tempo) ==
    settingsEffect(
        [e EXCEPT !.obs.ui.tempo = tempo,
                  !.obs.ui.tempoTimer = tempo,
                  !.obs.ui.tempoCalls =
                      IF e.obs.ui.tempoTimer = 0 THEN <<>> ELSE @],
        e.obs.ui)

\* room for one more change and the timer after it
CallsFit(calls, timer) == timer = 0 \/ Len(calls) + 2 <= MaxCalls

HandleVolumeChange ==
    /\ CallsFit(obs.ui.volumeCalls, obs.ui.volumeTimer)
    /\ Len(obs.ui.tempoCalls) + 2 <= MaxCalls
    /\ \E volume \in VolumeLevels :
           Sync("handleVolumeChange", 0, handleVolumeChange(Eng, volume))

HandleTempoChange ==
    /\ CallsFit(obs.ui.tempoCalls, obs.ui.tempoTimer)
    /\ Len(obs.ui.volumeCalls) + 2 <= MaxCalls
    /\ \E tempo \in TempoLevels :
           Sync("handleTempoChange", 0, handleTempoChange(Eng, tempo))

\* the timeout of volumeDebounceRef
VolumeDebounceFires ==
    /\ obs.ui.volumeTimer # 0
    /\ Sync("volumeDebounce", 0,
            setMasterVolume([Eng EXCEPT !.obs.ui.volumeTimer = 0],
                            obs.ui.volumeTimer))

\* the timeout of tempoDebounceRef
TempoDebounceFires ==
    /\ obs.ui.tempoTimer # 0
    /\ Sync("tempoDebounce", 0,
            callSetTempo([Eng EXCEPT !.obs.ui.tempoTimer = 0],
                         obs.ui.tempoTimer))

\* ---- the frequency of a planet ----

\* PLANETS[i].distanceFromSun in hundredths of an astronomical unit
distanceFromSun == <<39, 72, 100, 152, 520, 958, 1922, 3005>>
minDistance == 39
maxDistance == 3948
\* frequencies in hundredths of a hertz
minFreq == 20000
maxFreq == 80000
\* the factor and its power are counted in 1/PowUnit; the tenth power of
\* PowUnit is the largest that the integers hold
PowUnit == 8

DistanceInputs ==
    {distanceFromSun[i] : i \in 1..PlanetCount} \cup {250, 1400, 2500, maxDistance}

Pow10(y) == y * y * y * y * y * y * y * y * y * y
Pow7(x) == x * x * x * x * x * x * x

\* Math.pow(x, 0.7): the largest y whose tenth power is at most the seventh
\* power of x
Pow07(x) ==
    CHOOSE y \in 0..PowUnit :
        /\ Pow10(y) <= Pow7(x) * PowUnit * PowUnit * PowUnit
        /\ \A z \in 0..PowUnit :
               Pow10(z) <= Pow7(x) * PowUnit * PowUnit * PowUnit => z <= y

\* 1 - normalizedDistance
inverseFactor(d) == (PowUnit * (maxDistance - d)) \div (maxDistance - minDistance)

\* a mapping that uses normalizedDistance where the code uses inverseFactor
mapDistanceToFrequency_Direct(d) ==
    minFreq + ((maxFreq - minFreq) * Pow07(PowUnit - inverseFactor(d))) \div PowUnit

mapDistanceToFrequency(d) ==
    minFreq + ((maxFreq - minFreq) * Pow07(inverseFactor(d))) \div PowUnit

\* the frequencies of two distances
MapDistanceToFrequency ==
    \E a \in DistanceInputs, b \in DistanceInputs :
        CalcStep([NoCalc EXCEPT
            !.fn = "mapDistanceToFrequency", !.d1 = a, !.d2 = b,
            !.f1 = mapDistanceToFrequency(a), !.f2 = mapDistanceToFrequency(b)])

\* the browser suspends the page's AudioContext (autoplay policy, interruption)
ContextSuspends ==
    /\ audioContext /\ ctx = "running"
    /\ ctx' = "suspended"
    /\ last' = NoLast
    /\ UNCHANGED <<toneSeq, tone, isInitialized, audioState, settings,
                   timeMultiplier, audioContext, masterVolume, synths,
                   planetStates, loopsMap, toneLoops, timers, transport,
                   retryCount, hook, obs, tasks>>

\* getSettings(): a copy of the settings
getSettings == settings

\* ---- the state machine ----

InitEngine ==
    /\ toneSeq \in BOOLEAN
    /\ tone = NoTone
    /\ isInitialized = FALSE
    /\ audioState = [isInitialized |-> FALSE, isPlaying |-> FALSE,
                     hasError |-> FALSE, error |-> NoError,
                     contextState |-> "unknown"]
    /\ settings = [isPlaying |-> FALSE, tempo |-> DefaultTempo]
    /\ timeMultiplier = DefaultTimeMultiplier
    /\ audioContext = FALSE
    /\ masterVolume = FALSE
    /\ ctx = "suspended"
    /\ synths = [p \in Planets |-> "none"]
    /\ planetStates = [p \in Planets |-> NoState]
    /\ loopsMap = [p \in Planets |-> "none"]
    /\ toneLoops = [p \in Planets |-> <<>>]
    /\ timers = [p \in Planets |-> <<>>]
    /\ transport = "stopped"
    /\ retryCount = 0
    /\ hook = [isInitialized |-> FALSE, isPlaying |-> FALSE]
    /\ tasks = [t \in Tasks |-> Idle]
    /\ last = NoLast

Init == InitEngine /\ obs = NoObs

Next ==
    \/ CallInitialize(1)
    \/ CallStart(1)
    \/ TogglePlay(1)
    \/ ImportSettles(1)
    \/ ImportBuildSettles(1)
    \/ ToneStartSettles(1)
    \/ ResumeSettles(1)
    \/ RecoveryResumeSettles(1)
    \/ SetToneReference
    \/ Stop
    \/ SetTempo
    \/ SetTimeMultiplier
    \/ SetPlanetMute
    \/ TimerFires
    \/ LoopFires

Spec == Init /\ [][Next]_vars

\* The calls of initialize() and start() with their recovery, in a browser
\* that may suspend the context again and that settles every promise it made.
NextRecovery ==
    \/ CallInitialize(1)
    \/ CallStart(1)
    \/ ImportSettles(1)
    \/ ImportBuildSettles(1)
    \/ ToneStartSettles(1)
    \/ ResumeSettles(1)
    \/ RecoveryResumeSettles(1)
    \/ SetToneReference
    \/ Stop
    \/ ContextSuspends

SpecRecovery ==
    /\ Init /\ [][NextRecovery]_vars
    /\ WF_vars(ImportSettles(1))
    /\ WF_vars(ImportBuildSettles(1))
    /\ WF_vars(ToneStartSettles(1))
    /\ WF_vars(ResumeSettles(1))
    /\ WF_vars(RecoveryResumeSettles(1))

TypeOK ==
    /\ retryCount \in 0..maxRetries
    /\ \A t \in Tasks : Len(tasks[t].stack) < MaxDepth /\ tasks[t].op # "diverged"

\* ---- the claims ----

Count(p) == SchedCount(Eng, p)

\* planet p is to be heard: it has a synthesizer and is not muted
Sounding(p) ==
    planetStates[p].present /\ ~planetStates[p].isMuted /\ synths[p] # "none"

\* p has a schedule made for the tempo in force
ScheduledNow(p) ==
    \/ \E i \in 1..Len(toneLoops[p]) : toneLoops[p][i].tempo = settings.tempo
    \/ \E i \in 1..Len(timers[p]) : timers[p][i].tempo = settings.tempo

\* every schedule of p was made for the tempo in force
OnlyNow(p) ==
    /\ \A i \in 1..Len(toneLoops[p]) : toneLoops[p][i].tempo = settings.tempo
    /\ \A i \in 1..Len(timers[p]) : timers[p][i].tempo = settings.tempo

\* p has a schedule made before the most recent stop()
HasStale(p) ==
    \/ \E i \in 1..Len(toneLoops[p]) : toneLoops[p][i].stale
    \/ \E i \in 1..Len(timers[p]) : timers[p][i].stale

Degraded == isInitialized /\ audioState.hasError /\ ~audioContext

NoSchedules == \A p \in Planets : Count(p) = 0 /\ loopsMap[p] = "none"

NoSynths == \A p \in Planets : synths[p] = "none" /\ ~planetStates[p].present

\* C1: when start() has completed successfully from a non-playing state on
\* an initialized engine with working audio, isPlaying is true and every
\* unmuted planet with a synthesizer has a schedule at its computed interval.
C1_StartSchedulesEveryPlanet ==
    (/\ last.op = "start" /\ last.res = "ok"
     /\ ~last.pre.playing /\ last.pre.initialized /\ ~last.pre.dummy)
    => /\ settings.isPlaying
       /\ \A p \in Planets : Sounding(p) => Count(p) >= 1 /\ ScheduledNow(p)

\* C2: start() while the engine is playing is a no-op: no schedule is added,
\* isPlaying stays true and no planet has more than one schedule.
C2_StartWhilePlayingIsNoOp ==
    (last.op = "start" /\ last.pre.playing /\ last.atomic)
    => /\ settings.isPlaying
       /\ \A p \in Planets : Count(p) = last.pre.counts[p] /\ Count(p) <= 1

\* C3: after stop() immediately followed by start(), every planet has at
\* most one schedule and none that was made before the stop().
C3_RestartLeavesNoOldSchedule ==
    (last.op = "start" /\ last.pre.prev = "stop" /\ last.atomic /\ last.res = "ok")
    => \A p \in Planets : Count(p) <= 1 /\ ~HasStale(p)

\* C4: after setTempo or setTimeMultiplier while playing, every earlier
\* schedule is cancelled and every unmuted planet has exactly one schedule,
\* made for the new settings.
C4_TempoChangeReschedulesAll ==
    (last.op \in {"setTempo", "setTimeMultiplier"} /\ last.pre.playing)
    => \A p \in Planets :
          /\ OnlyNow(p)
          /\ Count(p) = IF Sounding(p) THEN 1 ELSE 0

\* C5: after setPlanetMute(p, true) while playing, p triggers no tone after
\* at most one further tick, and the schedules and mute flags of the other
\* planets are unchanged.
C5_MuteSilencesWithinOneTick ==
    [][/\ last'.op = "tone" => last'.muted <= 1
       /\ last'.op = "mute" =>
             \A q \in Planets \ {last'.p} :
                 /\ planetStates'[q] = planetStates[q]
                 /\ toneLoops'[q] = toneLoops[q]
                 /\ timers'[q] = timers[q]]_vars

\* C6: after setPlanetMute(p, false) on a muted planet while playing, p has
\* a schedule for the tempo in force that goes on triggering its tone.
C6_UnmuteResumesSchedule ==
    (last.op = "unmute" /\ last.pre.wasMuted /\ last.pre.playing)
    => /\ ~planetStates[last.p].isMuted
       /\ \/ /\ transport = "started"
             /\ \E i \in 1..Len(toneLoops[last.p]) :
                    toneLoops[last.p][i].tempo = settings.tempo
          \/ /\ settings.isPlaying
             /\ \E i \in 1..Len(timers[last.p]) :
                    timers[last.p][i].tempo = settings.tempo

C6_Witness ==
    /\ last.op = "unmute" /\ last.pre.wasMuted /\ last.pre.playing
    /\ Count(last.p) >= 1

\* C7: if no audio output can be constructed, initialize() does not throw
\* and leaves isInitialized = true and hasError = true.
C7_InitializeDegradesWithoutThrowing ==
    (last.op = "initialize" /\ last.fail # "none" /\ ~audioContext)
    => /\ last.res = "ok"
       /\ isInitialized /\ audioState.isInitialized
       /\ audioState.hasError

\* C8: in the degraded silent mode start() sets isPlaying, stop() clears it,
\* neither throws, hasError stays true and no synthesizer or schedule exists.
C8_DegradedStartStop ==
    /\ Degraded => audioState.hasError /\ NoSynths /\ NoSchedules
    /\ (last.op = "start" /\ last.pre.dummy)
       => /\ last.res = "ok" /\ Degraded
          /\ settings.isPlaying /\ audioState.isPlaying
    /\ (last.op = "stop" /\ last.pre.dummy)
       => /\ last.res = "ok" /\ Degraded
          /\ ~settings.isPlaying /\ ~audioState.isPlaying

C8_Witness ==
    /\ last.op = "stop" /\ last.pre.dummy /\ last.pre.playing
    /\ Degraded

\* C9: when the user toggles play while the animation is paused, the
\* Animation Driver's isPlaying becomes true whatever the engine's health.
C9_TogglePlayAnimates ==
    (last.op = "togglePlay" /\ ~last.pre.uiPlaying) => hook.isPlaying

C11_ReportOnlyAfterRecoveryFails ==
    (last.op \in {"initialize", "start"} /\ last.reported) => last.res = "throw"

\* C12: when initialize(), start() or stop() has returned, the snapshot that
\* the state-change subscribers were last handed is the engine's health state
C12_SubscribersSeeEveryChange ==
    last.op \in {"initialize", "start", "stop"} => obs.seen = audioState

\* ---- the life of the singleton: dispose() and resetAudioEngine() ----

NextLifecycle ==
    \/ CallInitialize(1)
    \/ CallStart(1)
    \/ ImportSettles(1)
    \/ ImportBuildSettles(1)
    \/ ToneStartSettles(1)
    \/ ResumeSettles(1)
    \/ RecoveryResumeSettles(1)
    \/ SetToneReference
    \/ Stop
    \/ SetPlanetMute
    \/ TimerFires
    \/ LoopFires
    \/ Dispose
    \/ ResetAudioEngine
    \/ OldTimerFires
    \/ OldLoopFires

SpecLifecycle == Init /\ [][NextLifecycle]_vars

\* C14: when dispose() has returned the engine is neither initialized nor
\* playing and has no synthesizer, no planet audio state, no schedule and
\* no audio context
C14_DisposeLeavesNothing ==
    last.op = "dispose" =>
        /\ ~isInitialized /\ ~audioState.isInitialized
        /\ ~settings.isPlaying /\ ~audioState.isPlaying
        /\ NoSynths
        /\ NoSchedules
        /\ ~audioContext

\* C15: resetAudioEngine() and getAudioEngine() give an engine in the initial
\* state, and no timer and no loop of the earlier engine fires afterwards
C15_ResetStartsAfresh ==
    /\ last.op = "reset" =>
           /\ ~isInitialized /\ audioState = InitAudioState
           /\ ~settings.isPlaying
           /\ NoSynths
    /\ last.op \notin {"oldTimer", "oldLoop"}

\* ---- the planets' volumes and mute flags ----

NextMixer ==
    \/ CallStart(1)
    \/ ImportSettles(1)
    \/ ImportBuildSettles(1)
    \/ ToneStartSettles(1)
    \/ ResumeSettles(1)
    \/ RecoveryResumeSettles(1)
    \/ SetToneReference
    \/ Stop
    \/ SetPlanetMute
    \/ SetPlanetVolume
    \/ HandlePlanetClick

SpecMixer == Init /\ [][NextMixer]_vars

\* C16: a volume set with setPlanetVolume is the stored volume again when a
\* mute and then an unmute have followed it, by setPlanetMute or by the page's
\* mute command
C16_MuteUnmuteKeepsVolume ==
    obs.track.phase = "unmuted" =>
        planetStates[obs.track.p].volume = obs.track.v

\* C17: when the page has handled a user's mute or unmute of a planet, the
\* page's Planet.isMuted is the engine's isMuted for that planet
C17_PageAndEngineAgreeOnMute ==
    (last.op = "click" /\ planetStates[IF last.p \in Planets THEN last.p ELSE 1].present)
        => obs.isMuted[last.p] = planetStates[last.p].isMuted

\* ---- setTempo on any number ----

TempoRange == {-40, 0, 59, 60, 61, 120, 179, 180, 181, 400}

\* the tempo control hands over one value of TempoRange
InitTempo ==
    /\ InitEngine
    /\ \E x \in TempoRange : obs = [NoObs EXCEPT !.tempoInputs = {x}]

NextTempo ==
    \/ CallStart(1)
    \/ ImportSettles(1)
    \/ ImportBuildSettles(1)
    \/ ToneStartSettles(1)
    \/ ResumeSettles(1)
    \/ RecoveryResumeSettles(1)
    \/ SetToneReference
    \/ Stop
    \/ SetTempo

SpecTempo == InitTempo /\ [][NextTempo]_vars

\* C18: when setTempo(x) has returned, getSettings().tempo is x brought into
\* the range from 60 to 180, whether the engine is initialized or playing
\* or not
C18_SetTempoClamps ==
    last.op = "setTempo" =>
        \A x \in obs.tempoInputs :
            getSettings.tempo = IF x < MinTempo THEN MinTempo
                                ELSE IF x > MaxTempo THEN MaxTempo
                                ELSE x

\* setTempo(400) on an engine that plays has stored the upper limit
C18_Witness ==
    /\ last.op = "setTempo"
    /\ last.pre.playing
    /\ obs.tempoInputs = {400}
    /\ getSettings.tempo = MaxTempo

\* ---- the animation ----

NextAnimation ==
    \/ SetIsPlaying
    \/ SetSpeedMultiplier
    \/ FrameFires
    \/ Tick

SpecAnimation == Init /\ [][NextAnimation]_vars

\* C19: while isPlaying is false no frame callback is pending and no frame
\* computes a position set, and at no time is more than one frame callback
\* pending
C19_StopCancelsTheFrame ==
    /\ Len(obs.anim.pending) <= 1
    /\ ~obs.anim.isPlaying => obs.anim.pending = <<>>
    /\ (last.op = "frame" /\ last.res = "ok") => obs.anim.isPlaying

\* frames have run and computed, isPlaying has become false, and no frame
\* callback is left
C19_Witness ==
    /\ last.op = "isPlaying" /\ ~obs.anim.isPlaying
    /\ obs.anim.elapsed > 0
    /\ obs.anim.pending = <<>>

\* C20: the elapsed time that a frame computes is the wall-clock time since
\* isPlaying last changed from false to true
C20_ElapsedSincePlay ==
    (last.op = "frame" /\ last.res = "ok") => obs.anim.elapsed = obs.anim.sincePlay

\* ---- the pure functions ----

NextGeometry == Resize

SpecGeometry == Init /\ [][NextGeometry]_vars

\* C21: in a container of any size the orbit radii grow strictly from each
\* planet to the next
C21_OrbitRadiiIncrease ==
    obs.calc.fn = "resize" =>
        \A p, q \in Planets : p < q => obs.calc.radii[p] < obs.calc.radii[q]

NextOrbit ==
    \/ CalculateOrbitPosition
    \/ AnimateAngle

SpecOrbit == Init /\ [][NextOrbit]_vars

\* C22: the angle of the orbital model lies in one revolution counted from
\* zero, for every planet, speed and elapsed time, negative ones and zero too
C22_AngleIsNormalised ==
    obs.calc.fn \in {"calculateOrbitPosition", "animate"} =>
        0 <= obs.calc.angle /\ obs.calc.angle < obs.calc.turn

\* C23: at a fixed speed the angle at an elapsed time t >= 0 and the angle
\* one orbital period later differ by whole revolutions
C23_AngleIsPeriodic ==
    (/\ obs.calc.fn \in {"calculateOrbitPosition", "animate"}
     /\ obs.calc.t >= 0
     /\ obs.calc.shift > 0)
        => (obs.calc.angle2 - obs.calc.angle) % obs.calc.turn = 0

\* the model was evaluated in the middle of a revolution and a period later
C23_Witness ==
    /\ obs.calc.fn = "calculateOrbitPosition"
    /\ obs.calc.t > 0 /\ obs.calc.shift > 0
    /\ obs.calc.angle > 0
    /\ obs.calc.angle2 = obs.calc.angle

\* C25: when the synth of some planet cannot be created while the synths of
\* others can, the call is a start() that completes with isPlaying = true,
\* the planets that did not fail have a synth, the failed planet has no
\* state, no synth and no schedule, and its creation is not tried again.
C25_FailedPlanetIsLeftOut ==
    [][/\ (/\ \A p \in Planets : ~planetStates[p].present
           /\ \E p \in Planets : planetStates'[p].present
           /\ \E q \in Planets : ~planetStates'[q].present)
          => /\ last'.op \in {"start", "togglePlay"} /\ last'.res = "ok"
             /\ settings'.isPlaying /\ audioState'.isPlaying
             /\ \A p \in Planets :
                    IF planetStates'[p].present
                    THEN synths'[p] # "none"
                    ELSE /\ synths'[p] = "none" /\ loopsMap'[p] = "none"
                         /\ Len(toneLoops'[p]) = 0 /\ Len(timers'[p]) = 0
       /\ \A q \in Planets :
              (/\ \E p \in Planets : planetStates[p].present
               /\ ~planetStates[q].present)
              => ~planetStates'[q].present]_vars

\* a start() has completed, playing, with the synth of one planet and
\* without that of another, and has reported the failure
C25_Witness ==
    /\ last.op = "start" /\ last.res = "ok" /\ last.reported
    /\ settings.isPlaying
    /\ \E p, q \in Planets :
           /\ planetStates[p].present /\ synths[p] # "none"
           /\ ~planetStates[q].present /\ synths[q] = "none"

\* C27: the engine is playing only if it is initialized, also after a start
\* that failed, after recovery, in the degraded mode and after dispose()
C27_PlayingOnlyIfInitialized ==
    (settings.isPlaying \/ audioState.isPlaying)
    => (isInitialized /\ audioState.isInitialized)

\* dispose() on a playing engine has left it neither playing nor initialized
C27_Witness ==
    /\ last.op = "dispose" /\ last.pre.playing /\ last.pre.initialized
    /\ ~settings.isPlaying /\ ~isInitialized

\* C28: while the engine is not playing its map of loops is empty, an entry
\* is only put into the map while it is playing, and stop() and dispose()
\* leave the map empty
C28_LoopsOnlyWhilePlaying ==
    /\ [](/\ ~settings.isPlaying => \A p \in Planets : loopsMap[p] = "none"
          /\ last.op \in {"stop", "dispose"}
                 => \A p \in Planets : loopsMap[p] = "none")
    /\ [][\A p \in Planets :
              (loopsMap[p] = "none" /\ loopsMap'[p] # "none")
              => settings.isPlaying /\ settings'.isPlaying]_vars

\* stop() on a playing engine has emptied the map and left behind a
\* schedule that it had held
C28_Witness ==
    /\ last.op = "stop" /\ last.pre.playing /\ ~settings.isPlaying
    /\ \E p \in Planets : HasStale(p)
    /\ \A p \in Planets : loopsMap[p] = "none"

\* C29: retryCount only falls when an initialize() or a start() has
\* succeeded and cleared the error, and then to 0; while all three attempts
\* are used, a call that fails rejects and reports its failure, and
\* retryCount stays where it is.
C29_RetriesResetOnlyBySuccess ==
    [][/\ retryCount' < retryCount
          => /\ retryCount' = 0
             /\ isInitialized' /\ ~audioState'.hasError
       /\ (/\ retryCount = maxRetries
           /\ last' # last /\ last'.op \in {"initialize", "start", "togglePlay"}
           /\ last'.res = "throw")
          => /\ retryCount' = maxRetries
             /\ last'.reported /\ audioState'.hasError
       /\ (/\ retryCount = maxRetries /\ retryCount' = maxRetries
           /\ last' # last /\ last'.op \in {"initialize", "start", "togglePlay"}
           /\ last'.fail # "none")
          => last'.res = "throw" /\ last'.reported]_vars

\* a start() made on an initialized engine has rejected at once and
\* reported its failure, with all three attempts used
C29_Witness ==
    /\ retryCount = maxRetries
    /\ last.op = "start" /\ last.res = "throw" /\ last.reported
    /\ last.atomic /\ last.pre.initialized
    /\ audioState.hasError

\* ---- setTimeMultiplier on any number ----

MultiplierRange == {-5, 0, 1, 2, 500, 1000, 10000, 10001, 50000}

\* the speed control hands over one value of MultiplierRange
InitMultiplier ==
    /\ InitEngine
    /\ \E x \in MultiplierRange : obs = [NoObs EXCEPT !.multiplierInputs = {x}]

NextMultiplier ==
    \/ CallStart(1)
    \/ ImportSettles(1)
    \/ ImportBuildSettles(1)
    \/ ToneStartSettles(1)
    \/ ResumeSettles(1)
    \/ RecoveryResumeSettles(1)
    \/ SetToneReference
    \/ Stop
    \/ SetTempo
    \/ SetTimeMultiplier

SpecMultiplier == InitMultiplier /\ [][NextMultiplier]_vars

NextDebounce ==
    \/ HandleVolumeChange
    \/ HandleTempoChange
    \/ VolumeDebounceFires
    \/ TempoDebounceFires

SpecDebounce == Init /\ [][NextDebounce]_vars

\* C26: when the debounce timer of a burst of volume or tempo changes
\* fires, the engine's setter has been called once since the burst began,
\* with the last value of the burst.
C26_DebounceAppliesLastValueOnce ==
    /\ last.op = "volumeDebounce" => obs.ui.volumeCalls = <<obs.ui.volume>>
    /\ last.op = "tempoDebounce" => obs.ui.tempoCalls = <<obs.ui.tempo>>

NextFrequency == MapDistanceToFrequency

SpecFrequency == Init /\ [][NextFrequency]_vars

NextConcurrent ==
    \/ \E t \in Tasks : CallInitialize(t)
    \/ \E t \in Tasks : ImportSettles(t)
    \/ \E t \in Tasks : ImportBuildSettles(t)
    \/ \E t \in Tasks : ToneStartSettles(t)
    \/ SetToneReference
    \/ ContextSuspends

SpecConcurrent == Init /\ [][NextConcurrent]_vars

\* C13: however the calls of initialize() interleave, the master gain node
\* is created at most once between the construction and dispose()
C13_InitializeCreatesOneGraph == obs.graphs <= 1

====
